---- MODULE Spec2Model ----
(***************************************************************************)
(* Model of the streaming response assembler and tool-call orchestration   *)
(* of finetune-for-tool-calling/chat_app.py (function main, the chat-input *)
(* handler, with execute_tool_call and stream_chat_response).              *)
(*                                                                         *)
(* Texts that the code concatenates (content, reasoning, argument text)    *)
(* are sequences of one-character strings; ids and tool names, which the   *)
(* code only overwrites and tests for truthiness, are plain strings.       *)
(* An absent attribute, None and the empty string are all falsy in the     *)
(* code's "hasattr(...) and value" tests and are written <<>> or "".       *)
(***************************************************************************)
EXTENDS Integers, Sequences, FiniteSets, TLC

\* ------------------------------------------------------------------ bounds
\* chunks consumed from model streams over a whole behaviour
MaxChunks == 3
\* highest slot index a well-formed tool-call delta carries
MaxSlot == 1
\* a new user input is accepted while the transcript is shorter than this
MaxTranscript == 2
\* tool-call deltas fed to the accumulator in the accumulator specification
MaxDeltas == 3
\* content deltas fed to the classifier in the classifier specification
MaxPieces == 4
\* fragments of the stream in the stream specification
MaxFragments == 3

VARIABLES
    messages,             \* st.session_state.messages, the transcript
    pc,                   \* position of the chat-input handler
    full_response,        \* first turn: content buffer
    thinking_content,     \* first turn: reasoning buffer
    tool_calls,           \* first turn: tool-call accumulator
    followup_response,    \* follow-up turn: content buffer
    followup_thinking,    \* follow-up turn: reasoning buffer
    followup_tool_calls,  \* follow-up turn: tool-call accumulator
    calls,                \* model calls issued by this script run
    executed,             \* execute_tool_call invocations of this script run
    error,                \* the error this script run surfaced, "none" if none
    nchunks,              \* chunks consumed so far
    hist,                 \* inputs applied (accumulator and stream specifications)
    message_placeholder,  \* first turn: the spans rendered for the content
    content_ph,           \* follow-up turn: the spans rendered for the content
    enabled_tools         \* st.session_state.enabled_tools, by tool name

vars == <<messages, pc, full_response, thinking_content, tool_calls,
          followup_response, followup_thinking, followup_tool_calls,
          calls, executed, error, nchunks, hist,
          message_placeholder, content_ph, enabled_tools>>

\* ------------------------------------------------------------ JSON, backend
\* json.dumps: the encoded text of a value, never the value itself
JsonDumps(v) == [json |-> v]

\* json.loads over the argument alphabet {"{", "}", "1"}: "{}" is the empty
\* object, a non-empty run of digits is a number, anything else raises.
JsonLoads(text) ==
    IF text = <<"{", "}">> THEN [ok |-> TRUE, value |-> [type |-> "object"]]
    ELSE IF Len(text) > 0 /\ \A k \in 1..Len(text) : text[k] = "1"
         THEN [ok |-> TRUE, value |-> [type |-> "number"]]
         ELSE [ok |-> FALSE, value |-> [type |-> "none"]]

\* ParseToolArgs without the except branch: the failed parse is passed on
ParseToolArgs_NoFallback(text) ==
    IF text = <<>> THEN [type |-> "object"] ELSE JsonLoads(text).value

\* tool_args = json.loads(arguments) if arguments else {}; except: {}
ParseToolArgs(text) ==
    IF text = <<>> THEN [type |-> "object"]
    ELSE IF JsonLoads(text).ok THEN JsonLoads(text).value
         ELSE [type |-> "object"]

\* Tools whose branch reads arguments.get(...) against the fake database
DbTools == {"find_user_id_by_email", "find_user_id_by_name_zip",
            "get_order_details", "get_user_details", "get_product_details"}

\* ExecuteToolCall without the outer except: the exception of the try block
\* is what comes out
ExecuteToolCall_NoExcept(tool_name, arguments) ==
    IF tool_name \in DbTools \cup {"calculate"}
    THEN IF arguments.type = "object"
         THEN IF tool_name = "calculate"
              THEN [error |-> "Invalid expression"]
              ELSE [error |-> "not found"]
         ELSE [raised |-> "AttributeError"]
    ELSE IF tool_name = "list_all_product_types"
         THEN [products |-> "all"]
         ELSE [status |-> "success", tool |-> tool_name, arguments |-> arguments]

\* execute_tool_call. The only argument mappings the alphabet produces are
\* empty, so every lookup uses the default key '' and finds nothing; a
\* non-mapping argument makes arguments.get raise inside the try block.
ExecuteToolCall(tool_name, arguments) ==
    IF tool_name \in DbTools \cup {"calculate"}
    THEN IF arguments.type = "object"
         THEN IF tool_name = "calculate"
              THEN [error |-> "Invalid expression"]
              ELSE [error |-> "not found"]
         ELSE [error |-> "Error executing tool"]
    ELSE IF tool_name = "list_all_product_types"
         THEN [products |-> "all"]
         ELSE [status |-> "success", tool |-> tool_name, arguments |-> arguments]

\* --------------------------------------------------------- the accumulator
EmptyToolCall ==
    [id |-> "", type |-> "function", function |-> [name |-> "", arguments |-> <<>>]]

\* PadTo that stops one slot short of idx
RECURSIVE PadTo_StopsShort(_, _)
PadTo_StopsShort(tcs, idx) ==
    IF Len(tcs) < idx THEN PadTo_StopsShort(Append(tcs, EmptyToolCall), idx) ELSE tcs

\* while len(tool_calls) <= idx: tool_calls.append(placeholder)
RECURSIVE PadTo(_, _)
PadTo(tcs, idx) ==
    IF Len(tcs) <= idx THEN PadTo(Append(tcs, EmptyToolCall), idx) ELSE tcs

\* ApplyDelta with a delta's id written to the last slot, not to slot index
ApplyDelta_IdToLastSlot(tcs, d) ==
    LET padded == PadTo(tcs, d.index)
        pos    == IF d.index >= 0 THEN d.index + 1 ELSE Len(padded) + d.index + 1
        withId == IF d.id # "" THEN [padded EXCEPT ![Len(padded)].id = d.id] ELSE padded
        withNm == IF d.function = "obj" /\ d.name # ""
                  THEN [withId EXCEPT ![pos].function.name = d.name] ELSE withId
        withAr == IF d.function = "obj" /\ d.arguments # <<>>
                  THEN [withNm EXCEPT ![pos].function.arguments = @ \o d.arguments]
                  ELSE withNm
    IN  IF pos < 1 \/ d.function = "null"
        THEN [raised |-> TRUE, tcs |-> tcs]
        ELSE [raised |-> FALSE, tcs |-> withAr]

\* ApplyDelta with a name delta taken only while the slot has no name
ApplyDelta_KeepsFirstName(tcs, d) ==
    LET padded == PadTo(tcs, d.index)
        pos    == IF d.index >= 0 THEN d.index + 1 ELSE Len(padded) + d.index + 1
        withId == IF d.id # "" THEN [padded EXCEPT ![pos].id = d.id] ELSE padded
        withNm == IF d.function = "obj" /\ d.name # ""
                     /\ withId[pos].function.name = ""
                  THEN [withId EXCEPT ![pos].function.name = d.name] ELSE withId
        withAr == IF d.function = "obj" /\ d.arguments # <<>>
                  THEN [withNm EXCEPT ![pos].function.arguments = @ \o d.arguments]
                  ELSE withNm
    IN  IF pos < 1 \/ d.function = "null"
        THEN [raised |-> TRUE, tcs |-> tcs]
        ELSE [raised |-> FALSE, tcs |-> withAr]

\* ApplyDelta with the argument fragment assigned instead of appended
ApplyDelta_ArgsOverwrite(tcs, d) ==
    LET padded == PadTo(tcs, d.index)
        pos    == IF d.index >= 0 THEN d.index + 1 ELSE Len(padded) + d.index + 1
        withId == IF d.id # "" THEN [padded EXCEPT ![pos].id = d.id] ELSE padded
        withNm == IF d.function = "obj" /\ d.name # ""
                  THEN [withId EXCEPT ![pos].function.name = d.name] ELSE withId
        withAr == IF d.function = "obj" /\ d.arguments # <<>>
                  THEN [withNm EXCEPT ![pos].function.arguments = d.arguments]
                  ELSE withNm
    IN  IF pos < 1 \/ d.function = "null"
        THEN [raised |-> TRUE, tcs |-> tcs]
        ELSE [raised |-> FALSE, tcs |-> withAr]

\* One tool-call delta applied to an accumulator. A delta is
\* [index, id, function, name, arguments]; function is "obj" (present),
\* "absent" (no such attribute) or "null" (attribute present, value None).
\* The result says whether the code raised and gives the accumulator.
ApplyDelta(tcs, d) ==
    LET padded == PadTo(tcs, d.index)
        pos    == IF d.index >= 0 THEN d.index + 1 ELSE Len(padded) + d.index + 1
        withId == IF d.id # "" THEN [padded EXCEPT ![pos].id = d.id] ELSE padded
        withNm == IF d.function = "obj" /\ d.name # ""
                  THEN [withId EXCEPT ![pos].function.name = d.name] ELSE withId
        withAr == IF d.function = "obj" /\ d.arguments # <<>>
                  THEN [withNm EXCEPT ![pos].function.arguments = @ \o d.arguments]
                  ELSE withNm
    IN  IF pos < 1 \/ d.function = "null"
        THEN [raised |-> TRUE, tcs |-> tcs]
        ELSE [raised |-> FALSE, tcs |-> withAr]

\* for tc_delta in delta.tool_calls: ...
RECURSIVE ApplyDeltas(_, _)
ApplyDeltas(tcs, ds) ==
    IF ds = <<>> THEN [raised |-> FALSE, tcs |-> tcs]
    ELSE LET r == ApplyDelta(tcs, Head(ds))
         IN  IF r.raised THEN r ELSE ApplyDeltas(r.tcs, Tail(ds))

\* ProcessChunk with a reasoning delta assigned to the buffer, not appended
ProcessChunk_ReasoningOverwrites(thinking, tcs, content, chunk) ==
    IF ~chunk.choices
    THEN [raised |-> FALSE, thinking |-> thinking, tcs |-> tcs, content |-> content]
    ELSE LET th == IF chunk.reasoning # <<>> THEN chunk.reasoning
                   ELSE IF chunk.reasoning_content # <<>>
                        THEN chunk.reasoning_content
                        ELSE thinking
             r  == ApplyDeltas(tcs, chunk.tool_calls)
         IN  [raised |-> r.raised, thinking |-> th, tcs |-> r.tcs,
              content |-> content \o chunk.content]

\* The body of "for chunk in stream" for one chunk
ProcessChunk(thinking, tcs, content, chunk) ==
    IF ~chunk.choices
    THEN [raised |-> FALSE, thinking |-> thinking, tcs |-> tcs, content |-> content]
    ELSE LET th == IF chunk.reasoning # <<>> THEN thinking \o chunk.reasoning
                   ELSE IF chunk.reasoning_content # <<>>
                        THEN thinking \o chunk.reasoning_content
                        ELSE thinking
             r  == ApplyDeltas(tcs, chunk.tool_calls)
         IN  [raised |-> r.raised, thinking |-> th, tcs |-> r.tcs,
              content |-> content \o chunk.content]

\* ---------------------------------------------------------- turn finalizing
HasName(tc) == tc.function.name # ""

\* FormatToolCalls without the test on the slot's name
FormatToolCalls_KeepsAll(tcs) ==
    [k \in 1..Len(tcs) |->
        [id |-> tcs[k].id, type |-> "function",
         function |-> [name |-> tcs[k].function.name,
                       arguments |-> tcs[k].function.arguments]]]

\* formatted_tool_calls: the named slots, in list order
FormatToolCalls(tcs) ==
    LET named == SelectSeq(tcs, HasName)
    IN  [k \in 1..Len(named) |->
            [id |-> named[k].id, type |-> "function",
             function |-> [name |-> named[k].function.name,
                           arguments |-> named[k].function.arguments]]]

\* assistant_msg / followup_msg
AssistantMsg(content, thinking, tcs) ==
    LET base   == [role |-> "assistant", content |-> content]
        withTh == IF thinking # <<>> THEN base @@ ("thinking" :> thinking) ELSE base
    IN  IF tcs # <<>> /\ FormatToolCalls(tcs) # <<>>
        THEN withTh @@ ("tool_calls" :> FormatToolCalls(tcs))
        ELSE withTh

\* The tool message appended for one named slot
ToolMsg(tc) ==
    [role |-> "tool",
     content |-> ExecuteToolCall(tc.function.name, ParseToolArgs(tc.function.arguments)),
     tool_call_id |-> tc.id]

\* DispatchMsgs with the tool messages appended in reverse slot order
DispatchMsgs_Reversed(tcs) ==
    LET named == SelectSeq(tcs, HasName)
    IN  [k \in 1..Len(named) |-> ToolMsg(named[Len(named) + 1 - k])]

\* for tc in tool_calls: if tc["function"]["name"]: ... messages.append(tool message)
DispatchMsgs(tcs) ==
    LET named == SelectSeq(tcs, HasName)
    IN  [k \in 1..Len(named) |-> ToolMsg(named[k])]

\* the execute_tool_call invocations that loop makes, in order
DispatchCalls(tcs) ==
    LET named == SelectSeq(tcs, HasName)
    IN  [k \in 1..Len(named) |->
            [id |-> named[k].id, name |-> named[k].function.name,
             arguments |-> ParseToolArgs(named[k].function.arguments)]]

\* ------------------------------------------------------------ wire requests
SystemMessage == [role |-> "system", content |-> <<"S">>]

\* one transcript entry translated by main
ApiMsg(msg) ==
    IF msg.role = "user" THEN [role |-> "user", content |-> msg.content]
    ELSE IF msg.role = "assistant"
    THEN LET b  == [role |-> "assistant", content |-> msg.content]
             tc == IF "tool_calls" \in DOMAIN msg
                   THEN b @@ ("tool_calls" :> msg.tool_calls) ELSE b
         IN  IF "thinking" \in DOMAIN msg
             THEN tc @@ ("reasoning_content" :> msg.thinking) ELSE tc
    ELSE [role |-> "tool", content |-> JsonDumps(msg.content),
          tool_call_id |-> msg.tool_call_id]

\* api_messages / followup_messages: system preamble, then the transcript
PrepareMessages(msgs) ==
    <<SystemMessage>> \o [k \in 1..Len(msgs) |-> ApiMsg(msgs[k])]

IsChatRole(m) == m.role \in {"user", "assistant", "tool"}

\* stream_chat_response translates what it is given once more: entries of
\* any other role fall through every branch of its loop
StreamApiMessages(msgs) ==
    LET kept == SelectSeq(msgs, IsChatRole)
    IN  [k \in 1..Len(kept) |-> ApiMsg(kept[k])]

\* one model call: the transcript it was issued on, params["messages"] and
\* params["tools"] (empty when the key is not set)
ModelCall(msgs) ==
    [at |-> msgs, messages |-> StreamApiMessages(PrepareMessages(msgs)),
     tools |-> enabled_tools]

\* ------------------------------------------------- rendering the content
\* Content is a sequence of tokens: "<", ">", "/", " ", a letter, or a whole
\* keyword. Keywords are the tokens (?:think|reasoning) matches under
\* re.IGNORECASE; only "think" is the keyword of the literal '<think>'.
Keywords == {"think", "Reasoning"}

Span(kind, text) == [kind |-> kind, text |-> text]

\* message_placeholder.error(...)
ErrorSpan == Span("error", <<>>)

Min(S) == CHOOSE x \in S : \A y \in S : x <= y

\* position of the first ">" after position i, 0 if there is none
FirstGt(s, i) ==
    LET gts == { j \in (i + 1)..Len(s) : s[j] = ">" }
    IN  IF gts = {} THEN 0 ELSE Min(gts)

\* <[^>]*(?:think|reasoning)[^>]*> matched at position i: the position of
\* its last token, 0 if it does not match there
TagEnd(s, i) ==
    IF i >= 1 /\ i <= Len(s) /\ s[i] = "<"
    THEN LET j == FirstGt(s, i)
         IN  IF j # 0 /\ \E k \in (i + 1)..(j - 1) : s[k] \in Keywords
             THEN j ELSE 0
    ELSE 0

\* </[^>]*(?:think|reasoning)[^>]*> matched at position i
CloseEnd(s, i) ==
    IF i >= 1 /\ i + 1 <= Len(s) /\ s[i] = "<" /\ s[i + 1] = "/"
    THEN LET j == FirstGt(s, i + 1)
         IN  IF j # 0 /\ \E k \in (i + 2)..(j - 1) : s[k] \in Keywords
             THEN j ELSE 0
    ELSE 0

\* the whole pattern, open tag, .*? and close tag, matched at position i:
\* the close tag is the first one that starts after the open tag
RegionEnd(s, i) ==
    LET j == TagEnd(s, i)
        closes == { k \in (j + 1)..Len(s) : CloseEnd(s, k) # 0 }
    IN  IF j = 0 \/ closes = {} THEN 0 ELSE CloseEnd(s, Min(closes))

\* re.search(r'<[^>]*(?:think|reasoning)[^>]*>', full_response, re.IGNORECASE)
HasThinkingTags(s) == \E i \in 1..Len(s) : TagEnd(s, i) # 0

\* re.split with one capturing group; ends[p] is where the match that starts
\* at p ends, 0 if none starts there. The text before, between and after the
\* matches is kept, empty or not; q is where the pending text starts.
RECURSIVE SplitFrom(_, _, _, _)
SplitFrom(s, ends, p, q) ==
    IF p > Len(s)
    THEN <<SubSeq(s, q, Len(s))>>
    ELSE IF ends[p] # 0
         THEN <<SubSeq(s, q, p - 1), SubSeq(s, p, ends[p])>>
              \o SplitFrom(s, ends, ends[p] + 1, ends[p] + 1)
         ELSE SplitFrom(s, ends, p + 1, q)

\* parts = re.split(pattern, full_response, flags=re.DOTALL | re.IGNORECASE)
SplitParts(s) == SplitFrom(s, [p \in 1..Len(s) |-> RegionEnd(s, p)], 1, 1)

\* part.strip(): something other than white space is left
Strip(part) == \E k \in 1..Len(part) : part[k] # " "

\* StyledParts with the parts that are empty or blank kept as plain spans
RECURSIVE StyledParts_KeepsBlank(_)
StyledParts_KeepsBlank(parts) ==
    IF parts = <<>>
    THEN <<>>
    ELSE LET part == Head(parts)
         IN  (IF TagEnd(part, 1) # 0
              THEN <<Span("reasoning", part)>>
              ELSE <<Span("plain", part)>>)
             \o StyledParts_KeepsBlank(Tail(parts))

\* styled_parts: a part an open tag matches at its start is a reasoning
\* span, any other part that is not blank is a plain span
RECURSIVE StyledParts(_)
StyledParts(parts) ==
    IF parts = <<>>
    THEN <<>>
    ELSE LET part == Head(parts)
         IN  (IF TagEnd(part, 1) # 0
              THEN <<Span("reasoning", part)>>
              ELSE IF Strip(part)
                   THEN <<Span("plain", part)>>
                   ELSE <<>>)
             \o StyledParts(Tail(parts))

\* Classify with untagged text split and filtered like tagged text
Classify_AlwaysSplits(s) == StyledParts(SplitParts(s))

\* what message_placeholder shows for the content accumulated so far
Classify(s) ==
    IF HasThinkingTags(s)
    THEN StyledParts(SplitParts(s))
    ELSE <<Span("plain", s)>>

\* the follow-up turn knows the literal tags '<think>' and '</think>' only
ThinkOpen == <<"<", "think", ">">>
ThinkClose == <<"<", "/", "think", ">">>

\* s has the literal lit at position i
LitAt(s, i, lit) ==
    /\ i >= 1
    /\ i + Len(lit) - 1 <= Len(s)
    /\ SubSeq(s, i, i + Len(lit) - 1) = lit

\* <think>.*?</think> matched at position i
FollowupRegionEnd(s, i) ==
    LET closes == { k \in (i + Len(ThinkOpen))..Len(s) : LitAt(s, k, ThinkClose) }
    IN  IF ~LitAt(s, i, ThinkOpen) \/ closes = {}
        THEN 0
        ELSE Min(closes) + Len(ThinkClose) - 1

RECURSIVE FollowupStyledParts(_)
FollowupStyledParts(parts) ==
    IF parts = <<>>
    THEN <<>>
    ELSE LET part == Head(parts)
         IN  (IF LitAt(part, 1, ThinkOpen)
              THEN <<Span("reasoning", part)>>
              ELSE IF Strip(part)
                   THEN <<Span("plain", part)>>
                   ELSE <<>>)
             \o FollowupStyledParts(Tail(parts))

\* what content_ph shows for the follow-up content accumulated so far
ClassifyFollowup(s) ==
    IF \E i \in 1..Len(s) : LitAt(s, i, ThinkOpen)
    THEN FollowupStyledParts(
             SplitFrom(s, [p \in 1..Len(s) |-> FollowupRegionEnd(s, p)], 1, 1))
    ELSE <<Span("plain", s)>>

\* display_message, the content of an assistant entry of the history: the
\* literal tags again; nothing is drawn for empty content
DisplayContent(content) ==
    IF content = <<>>
    THEN <<>>
    ELSE IF \E i \in 1..Len(content) : LitAt(content, i, ThinkOpen)
         THEN FollowupStyledParts(
                  SplitFrom(content,
                            [p \in 1..Len(content) |-> FollowupRegionEnd(content, p)],
                            1, 1))
         ELSE <<Span("plain", content)>>

\* a placeholder is redrawn by a chunk that carries content
RenderContent(placeholder, chunk, spans) ==
    IF chunk.choices /\ chunk.content # <<>> THEN spans ELSE placeholder

\* ------------------------------------------------------------------ inputs
Delta(i, id, fn, nm, args) ==
    [index |-> i, id |-> id, function |-> fn, name |-> nm, arguments |-> args]

Chunk(ch, r, rc, c, tcd) ==
    [choices |-> ch, reasoning |-> r, reasoning_content |-> rc,
     content |-> c, tool_calls |-> tcd]

\* tool-call deltas the model server sends in the orchestrator specification
StreamDeltas ==
    { Delta(0, "i", "obj", "get_order_details", <<>>),
      Delta(0, "", "obj", "", <<"{">>),
      Delta(0, "", "obj", "", <<"}">>),
      Delta(MaxSlot, "j", "obj", "send_email", <<>>),
      Delta(MaxSlot, "j", "obj", "", <<"1">>),
      Delta(0, "", "obj", "", <<"1">>),
      Delta(0, "i", "null", "", <<>>),
      Delta(0, "i", "absent", "", <<>>),
      Delta(-1, "", "obj", "", <<"}">>) }

Chunks ==
    { Chunk(FALSE, <<>>, <<>>, <<>>, <<>>),
      Chunk(TRUE, <<>>, <<>>, <<>>, <<>>),
      Chunk(TRUE, <<"r">>, <<>>, <<>>, <<>>),
      Chunk(TRUE, <<>>, <<"q">>, <<>>, <<>>),
      Chunk(TRUE, <<>>, <<>>, <<"c">>, <<>>),
      Chunk(TRUE, <<"r">>, <<"q">>, <<"c">>,
            <<Delta(0, "i", "obj", "get_order_details", <<"{">>)>>),
      Chunk(TRUE, <<>>, <<>>, <<>>,
            <<Delta(0, "i", "obj", "get_order_details", <<"{", "}">>),
              Delta(MaxSlot, "j", "obj", "send_email", <<>>)>>) }
    \cup { Chunk(TRUE, <<>>, <<>>, <<>>, <<d>>) : d \in StreamDeltas }

Prompts == {<<"p">>}

\* ----------------------------------------------------------------- actions
Init ==
    /\ messages = <<>>
    /\ pc = "idle"
    /\ full_response = <<>>
    /\ thinking_content = <<>>
    /\ tool_calls = <<>>
    /\ followup_response = <<>>
    /\ followup_thinking = <<>>
    /\ followup_tool_calls = <<>>
    /\ calls = <<>>
    /\ executed = <<>>
    /\ error = "none"
    /\ nchunks = 0
    /\ hist = <<>>
    /\ message_placeholder = <<>>
    /\ content_ph = <<>>
    /\ enabled_tools = {}

\* A prompt is entered: the user message is appended, the buffers are
\* initialised and the first model call is issued; created tells whether
\* stream_chat_response returned a stream or None.
Submit(prompt, created) ==
    /\ pc = "idle"
    /\ Len(messages) < MaxTranscript
    /\ messages' = Append(messages, [role |-> "user", content |-> prompt])
    /\ full_response' = <<>>
    /\ thinking_content' = <<>>
    /\ tool_calls' = <<>>
    /\ followup_response' = <<>>
    /\ followup_thinking' = <<>>
    /\ followup_tool_calls' = <<>>
    /\ calls' = <<ModelCall(messages')>>
    /\ executed' = <<>>
    /\ error' = IF created THEN "none" ELSE "call_failed"
    /\ pc' = IF created THEN "streaming" ELSE "idle"
    /\ message_placeholder' = IF created THEN <<>> ELSE <<ErrorSpan>>
    /\ content_ph' = <<>>
    /\ UNCHANGED <<nchunks, hist,
                   enabled_tools>>

UserInput ==
    /\ pc = "idle"
    /\ \E p \in Prompts : Submit(p, TRUE)

UserInputCallFails ==
    /\ pc = "idle"
    /\ \E p \in Prompts : Submit(p, FALSE)

\* The Clear Chat button: a script run that empties the transcript
ClearChat ==
    /\ pc = "idle"
    /\ messages # <<>>
    /\ messages' = <<>>
    /\ full_response' = <<>>
    /\ thinking_content' = <<>>
    /\ tool_calls' = <<>>
    /\ followup_response' = <<>>
    /\ followup_thinking' = <<>>
    /\ followup_tool_calls' = <<>>
    /\ calls' = <<>>
    /\ executed' = <<>>
    /\ error' = "none"
    /\ message_placeholder' = <<>>
    /\ content_ph' = <<>>
    /\ UNCHANGED <<pc, nchunks, hist,
                   enabled_tools>>

\* One chunk of the first stream
StreamChunk ==
    /\ pc = "streaming"
    /\ nchunks < MaxChunks
    /\ \E c \in Chunks :
         LET r == ProcessChunk(thinking_content, tool_calls, full_response, c)
         IN  IF r.raised
             THEN /\ pc' = "idle"
                  /\ error' = "chunk_error"
                  /\ UNCHANGED <<thinking_content, tool_calls, full_response,
                                 message_placeholder>>
             ELSE /\ thinking_content' = r.thinking
                  /\ tool_calls' = r.tcs
                  /\ full_response' = r.content
                  /\ message_placeholder' =
                         RenderContent(message_placeholder, c, Classify(r.content))
                  /\ UNCHANGED <<pc, error>>
    /\ nchunks' = nchunks + 1
    /\ UNCHANGED <<messages, followup_response, followup_thinking,
                   followup_tool_calls, calls, executed, hist, content_ph,
                   enabled_tools>>

\* StreamError with the user message taken back off the transcript
StreamError_RollsBack ==
    /\ pc = "streaming"
    /\ pc' = "idle"
    /\ error' = "stream_error"
    /\ messages' = SubSeq(messages, 1, Len(messages) - 1)
    /\ UNCHANGED <<full_response, thinking_content, tool_calls,
                   followup_response, followup_thinking, followup_tool_calls,
                   calls, executed, nchunks, hist,
                   message_placeholder, content_ph,
                   enabled_tools>>

\* StreamError with the partial first-turn buffers saved as a message
StreamError_SavesPartial ==
    /\ pc = "streaming"
    /\ pc' = "idle"
    /\ error' = "stream_error"
    /\ messages' = Append(messages,
                          AssistantMsg(full_response, thinking_content, tool_calls))
    /\ UNCHANGED <<full_response, thinking_content, tool_calls,
                   followup_response, followup_thinking, followup_tool_calls,
                   calls, executed, nchunks, hist,
                   message_placeholder, content_ph,
                   enabled_tools>>

\* The first stream raises a transport error while it is iterated
StreamError ==
    /\ pc = "streaming"
    /\ pc' = "idle"
    /\ error' = "stream_error"
    /\ UNCHANGED <<messages, full_response, thinking_content, tool_calls,
                   followup_response, followup_thinking, followup_tool_calls,
                   calls, executed, nchunks, hist,
                   message_placeholder, content_ph,
                   enabled_tools>>

\* FinishTurn with the follow-up call issued before the tools are executed
FinishTurn_CallsBeforeDispatch(created) ==
    /\ pc = "streaming"
    /\ LET saved == Append(messages,
                           AssistantMsg(full_response, thinking_content, tool_calls))
       IN  IF tool_calls # <<>>
           THEN /\ messages' = saved \o DispatchMsgs(tool_calls)
                /\ executed' = executed \o DispatchCalls(tool_calls)
                /\ calls' = Append(calls, ModelCall(saved))
                /\ pc' = IF created THEN "followup" ELSE "idle"
                /\ error' = IF created THEN error ELSE "call_failed"
           ELSE /\ created
                /\ messages' = saved
                /\ pc' = "idle"
                /\ UNCHANGED <<executed, calls, error>>
    /\ UNCHANGED <<full_response, thinking_content, tool_calls,
                   followup_response, followup_thinking, followup_tool_calls,
                   nchunks, hist,
                   message_placeholder, content_ph,
                   enabled_tools>>

\* The first stream ends: the assistant message is saved; if the accumulator
\* is non-empty the named slots are executed, their tool messages appended
\* and the follow-up model call issued.
FinishTurn(created) ==
    /\ pc = "streaming"
    /\ LET saved == Append(messages,
                           AssistantMsg(full_response, thinking_content, tool_calls))
       IN  IF tool_calls # <<>>
           THEN /\ messages' = saved \o DispatchMsgs(tool_calls)
                /\ executed' = executed \o DispatchCalls(tool_calls)
                /\ calls' = Append(calls, ModelCall(messages'))
                /\ pc' = IF created THEN "followup" ELSE "idle"
                /\ error' = IF created THEN error ELSE "call_failed"
           ELSE /\ created
                /\ messages' = saved
                /\ pc' = "idle"
                /\ UNCHANGED <<executed, calls, error>>
    /\ UNCHANGED <<full_response, thinking_content, tool_calls,
                   followup_response, followup_thinking, followup_tool_calls,
                   nchunks, hist,
                   message_placeholder, content_ph,
                   enabled_tools>>

StreamEnd ==
    /\ pc = "streaming"
    /\ FinishTurn(TRUE)

StreamEndCallFails ==
    /\ tool_calls # <<>>
    /\ FinishTurn(FALSE)

\* One chunk of the follow-up stream
FollowupChunk ==
    /\ pc = "followup"
    /\ nchunks < MaxChunks
    /\ \E c \in Chunks :
         LET r == ProcessChunk(followup_thinking, followup_tool_calls,
                               followup_response, c)
         IN  IF r.raised
             THEN /\ pc' = "idle"
                  /\ error' = "chunk_error"
                  /\ UNCHANGED <<followup_thinking, followup_tool_calls,
                                 followup_response, content_ph>>
             ELSE /\ followup_thinking' = r.thinking
                  /\ followup_tool_calls' = r.tcs
                  /\ followup_response' = r.content
                  /\ content_ph' =
                         RenderContent(content_ph, c, ClassifyFollowup(r.content))
                  /\ UNCHANGED <<pc, error>>
    /\ nchunks' = nchunks + 1
    /\ UNCHANGED <<messages, full_response, thinking_content, tool_calls,
                   calls, executed, hist, message_placeholder,
                   enabled_tools>>

\* FollowupError with the partial follow-up buffers saved as a message
FollowupError_SavesPartial ==
    /\ pc = "followup"
    /\ pc' = "idle"
    /\ error' = "stream_error"
    /\ messages' = Append(messages,
                          AssistantMsg(followup_response, followup_thinking,
                                       followup_tool_calls))
    /\ UNCHANGED <<full_response, thinking_content, tool_calls,
                   followup_response, followup_thinking, followup_tool_calls,
                   calls, executed, nchunks, hist,
                   message_placeholder, content_ph,
                   enabled_tools>>

\* The follow-up stream raises a transport error while it is iterated
FollowupError ==
    /\ pc = "followup"
    /\ pc' = "idle"
    /\ error' = "stream_error"
    /\ UNCHANGED <<messages, full_response, thinking_content, tool_calls,
                   followup_response, followup_thinking, followup_tool_calls,
                   calls, executed, nchunks, hist,
                   message_placeholder, content_ph,
                   enabled_tools>>

\* FollowupEnd without the test on the three follow-up buffers
FollowupEnd_AlwaysSaves ==
    /\ pc = "followup"
    /\ messages' = Append(messages,
                          AssistantMsg(followup_response, followup_thinking,
                                       followup_tool_calls))
    /\ pc' = "idle"
    /\ UNCHANGED <<full_response, thinking_content, tool_calls,
                   followup_response, followup_thinking, followup_tool_calls,
                   calls, executed, error, nchunks, hist,
                   message_placeholder, content_ph,
                   enabled_tools>>

\* FollowupEnd that issues one more model call on the transcript it leaves
FollowupEnd_CallsAgain ==
    /\ pc = "followup"
    /\ messages' = IF \/ followup_response # <<>>
                      \/ followup_thinking # <<>>
                      \/ followup_tool_calls # <<>>
                   THEN Append(messages,
                               AssistantMsg(followup_response, followup_thinking,
                                            followup_tool_calls))
                   ELSE messages
    /\ calls' = Append(calls, ModelCall(messages'))
    /\ pc' = "idle"
    /\ UNCHANGED <<full_response, thinking_content, tool_calls,
                   followup_response, followup_thinking, followup_tool_calls,
                   executed, error, nchunks, hist,
                   message_placeholder, content_ph,
                   enabled_tools>>

\* The follow-up stream ends: the follow-up message is saved if any of the
\* three follow-up buffers is non-empty. Nothing is executed or called after.
FollowupEnd ==
    /\ pc = "followup"
    /\ messages' = IF \/ followup_response # <<>>
                      \/ followup_thinking # <<>>
                      \/ followup_tool_calls # <<>>
                   THEN Append(messages,
                               AssistantMsg(followup_response, followup_thinking,
                                            followup_tool_calls))
                   ELSE messages
    /\ pc' = "idle"
    /\ UNCHANGED <<full_response, thinking_content, tool_calls,
                   followup_response, followup_thinking, followup_tool_calls,
                   calls, executed, error, nchunks, hist,
                   message_placeholder, content_ph,
                   enabled_tools>>

Next ==
    \/ UserInput
    \/ UserInputCallFails
    \/ ClearChat
    \/ StreamChunk
    \/ StreamError
    \/ StreamEnd
    \/ StreamEndCallFails
    \/ FollowupChunk
    \/ FollowupError
    \/ FollowupEnd

Spec == Init /\ [][Next]_vars

\* Every stream is finite: a stream that is being read comes to its end
\* unless the handler has left the loop before
SpecFinite ==
    /\ Init
    /\ [][Next]_vars
    /\ WF_vars(StreamEnd)
    /\ WF_vars(FollowupEnd)

\* ------------------------------------------- the accumulator on its own
\* Well-formed deltas fed to the accumulator: every slot up to MaxSlot, each
\* delta carrying nothing, an id, a name, an argument fragment, or all three
AccFields ==
    { <<"", "", <<>>>>,
      <<"j", "", <<>>>>,
      <<"", "send_email", <<>>>>,
      <<"", "", <<"}">>>>,
      <<"i", "get_order_details", <<"{">>>> }

AccDeltas ==
    { Delta(i, f[1], "obj", f[2], f[3]) : i \in 0..MaxSlot, f \in AccFields }

\* A turn whose stream has just been opened, before any chunk
InitAcc ==
    /\ messages = <<[role |-> "user", content |-> <<"p">>]>>
    /\ pc = "streaming"
    /\ full_response = <<>>
    /\ thinking_content = <<>>
    /\ tool_calls = <<>>
    /\ followup_response = <<>>
    /\ followup_thinking = <<>>
    /\ followup_tool_calls = <<>>
    /\ enabled_tools = {}
    /\ calls = <<ModelCall(messages)>>
    /\ executed = <<>>
    /\ error = "none"
    /\ nchunks = 0
    /\ hist = <<>>
    /\ message_placeholder = <<>>
    /\ content_ph = <<>>

\* One tool-call delta reaches the accumulator of the first turn
AccumulateDelta ==
    /\ pc = "streaming"
    /\ Len(hist) < MaxDeltas
    /\ \E d \in AccDeltas :
         /\ tool_calls' = ApplyDelta(tool_calls, d).tcs
         /\ hist' = Append(hist, d)
    /\ UNCHANGED <<messages, pc, full_response, thinking_content,
                   followup_response, followup_thinking, followup_tool_calls,
                   calls, executed, error, nchunks,
                   message_placeholder, content_ph,
                   enabled_tools>>

NextAcc == AccumulateDelta

SpecAcc == InitAcc /\ [][NextAcc]_vars

\* --------------------------------------------- the classifier on its own
\* Content deltas of a first turn: whole tags, pieces of tags, letters, blanks
ContentPieces ==
    { <<"<", "think", ">">>,
      <<"<", "/", "think", ">">>,
      <<"<", "Reasoning", ">">>,
      <<"<", "/", "Reasoning", ">">>,
      <<"a">>,
      <<" ">>,
      <<"<">>,
      <<"think", ">">> }

\* One content delta reaches the first turn: the buffer grows and the
\* placeholder is redrawn from the whole buffer
ContentDelta ==
    /\ pc = "streaming"
    /\ nchunks < MaxPieces
    /\ \E p \in ContentPieces :
         LET c == Chunk(TRUE, <<>>, <<>>, p, <<>>)
             r == ProcessChunk(thinking_content, tool_calls, full_response, c)
         IN  /\ full_response' = r.content
             /\ message_placeholder' =
                    RenderContent(message_placeholder, c, Classify(r.content))
    /\ nchunks' = nchunks + 1
    /\ UNCHANGED <<messages, pc, thinking_content, tool_calls,
                   followup_response, followup_thinking, followup_tool_calls,
                   calls, executed, error, hist, content_ph,
                   enabled_tools>>

NextClassify == ContentDelta

SpecClassify == InitAcc /\ [][NextClassify]_vars

\* ------------------------------------------------- one stream on its own
\* Fragments of a first stream: without choices, with one kind of delta, with
\* both reasoning fields, and with every kind of delta together
StreamFragments ==
    { Chunk(FALSE, <<>>, <<>>, <<>>, <<>>),
      Chunk(TRUE, <<"r">>, <<>>, <<>>, <<>>),
      Chunk(TRUE, <<>>, <<"q">>, <<>>, <<>>),
      Chunk(TRUE, <<"r">>, <<"q">>, <<>>, <<>>),
      Chunk(TRUE, <<>>, <<>>, <<"c">>, <<>>),
      Chunk(TRUE, <<>>, <<>>, <<>>,
            <<Delta(0, "i", "obj", "get_order_details", <<"{">>)>>),
      Chunk(TRUE, <<"s">>, <<>>, <<"d">>,
            <<Delta(MaxSlot, "j", "obj", "send_email", <<"}">>)>>) }

\* One fragment of the first stream is read, and remembered in hist
ReceiveFragment ==
    /\ pc = "streaming"
    /\ Len(hist) < MaxFragments
    /\ \E c \in StreamFragments :
         LET r == ProcessChunk(thinking_content, tool_calls, full_response, c)
         IN  /\ ~r.raised
             /\ thinking_content' = r.thinking
             /\ tool_calls' = r.tcs
             /\ full_response' = r.content
             /\ message_placeholder' =
                    RenderContent(message_placeholder, c, Classify(r.content))
             /\ hist' = Append(hist, c)
    /\ nchunks' = nchunks + 1
    /\ UNCHANGED <<messages, pc, followup_response, followup_thinking,
                   followup_tool_calls, calls, executed, error, content_ph,
                   enabled_tools>>

NextStream ==
    \/ ReceiveFragment
    \/ StreamEnd

SpecStream == InitAcc /\ [][NextStream]_vars

\* --------------------------------------------- the tool selection and a turn
\* What the check boxes of the sidebar can select. The orchestrator
\* specification keeps the selection of init_session_state, none.
ToolSelections ==
    { {}, {"get_order_details"}, {"get_order_details", "send_email"} }

\* A script run in which the check boxes were changed
SelectTools ==
    /\ pc = "idle"
    /\ \E sel \in ToolSelections :
         /\ sel # enabled_tools
         /\ enabled_tools' = sel
    /\ UNCHANGED <<messages, pc, full_response, thinking_content, tool_calls,
                   followup_response, followup_thinking, followup_tool_calls,
                   calls, executed, error, nchunks, hist,
                   message_placeholder, content_ph>>

NextTools ==
    \/ SelectTools
    \/ UserInput
    \/ ReceiveFragment
    \/ StreamEnd

SpecTools == Init /\ [][NextTools]_vars

\* ------------------------------------------------------ reading a script run
\* tool_calls of a transcript entry, empty when the key is absent
ToolCallsOf(m) == IF "tool_calls" \in DOMAIN m THEN m.tool_calls ELSE <<>>

\* length of the transcript when the k-th model call of this run was issued
IssuedAt(k) == Len(calls[k].at)

\* the first turn of this run has saved its assistant message
FirstCommitted == calls # <<>> /\ Len(messages) > IssuedAt(1)

FirstMsg == messages[IssuedAt(1) + 1]

\* the follow-up turn of this run has saved its assistant message
FollowupCommitted == Len(calls) = 2 /\ Len(messages) > IssuedAt(2)

FollowupMsg == messages[IssuedAt(2) + 1]

\* the script run has ended and surfaced no error
RunDone == pc = "idle" /\ error = "none" /\ calls # <<>>

\* slots of an accumulator (1-based positions) that hold a name
NamedSlots(tcs) == { i \in 1..Len(tcs) : tcs[i].function.name # "" }

\* the k-th smallest named position
KthNamed(tcs, k) ==
    CHOOSE i \in NamedSlots(tcs) :
        Cardinality({ j \in NamedSlots(tcs) : j < i }) = k - 1

\* an accumulator's named slots in increasing slot order, as saved entries
NamedInOrder(tcs) ==
    [k \in 1..Cardinality(NamedSlots(tcs)) |->
        [id |-> tcs[KthNamed(tcs, k)].id, type |-> "function",
         function |-> [name |-> tcs[KthNamed(tcs, k)].function.name,
                       arguments |-> tcs[KthNamed(tcs, k)].function.arguments]]]

\* ------------------------------------------------------------------ claims

\* C1: when the first assistant turn of a user input finalizes with zero
\* tool calls (no slot received a name), exactly one model call is made for
\* that input and the orchestrator stops.
C1_OneCallWithoutToolCalls ==
    (FirstCommitted /\ ToolCallsOf(FirstMsg) = <<>>)
        => (Len(calls) = 1 /\ pc = "idle")

FollowupDelivered ==
    \/ followup_response # <<>>
    \/ followup_thinking # <<>>
    \/ followup_tool_calls # <<>>

C3_ReentersUntilNoToolCalls ==
    (RunDone /\ messages # <<>> /\ messages[Len(messages)].role = "assistant")
        => ToolCallsOf(messages[Len(messages)]) = <<>>

\* C4: when both the first and the follow-up turn request tools, the run
\* ends with a LoopBoundExceeded error reported.
C4_LoopBoundReported ==
    (pc = "idle" /\ FirstCommitted /\ FollowupCommitted
        /\ ToolCallsOf(FirstMsg) # <<>> /\ ToolCallsOf(FollowupMsg) # <<>>)
        => error = "LoopBoundExceeded"

\* C5: after a model call whose stream failed with a transport error
\* (while being opened or after any number of fragments) the transcript is
\* exactly the transcript the call was issued on.
C5_FailedCallCommitsNothing ==
    (calls # <<>> /\ error \in {"stream_error", "call_failed"})
        => messages = calls[Len(calls)].at

C5_Witness ==
    /\ error = "stream_error"
    /\ Len(calls) = 2
    /\ followup_response # <<>>
    /\ followup_tool_calls # <<>>
    /\ messages = calls[2].at

\* C6: every assistant message of the transcript has non-empty content,
\* non-empty reasoning or at least one tool call.
C6_AssistantNeverEmpty ==
    \A i \in 1..Len(messages) :
        messages[i].role = "assistant"
            => \/ messages[i].content # <<>>
               \/ ("thinking" \in DOMAIN messages[i] /\ messages[i].thinking # <<>>)
               \/ ToolCallsOf(messages[i]) # <<>>

\* C7: a slot whose name is empty at stream end is neither saved in
\* tool_calls nor executed; the named slots are all saved, in slot order.
C7_NamelessSlotsDropped ==
    /\ \A i \in 1..Len(messages) :
           \A k \in 1..Len(ToolCallsOf(messages[i])) :
               ToolCallsOf(messages[i])[k].function.name # ""
    /\ \A k \in 1..Len(executed) : executed[k].name # ""
    /\ FirstCommitted =>
           /\ ToolCallsOf(FirstMsg) = NamedInOrder(tool_calls)
           /\ (pc # "streaming" =>
                  Len(executed) = Cardinality(NamedSlots(tool_calls)))
    /\ FollowupCommitted =>
           ToolCallsOf(FollowupMsg) = NamedInOrder(followup_tool_calls)

C7_Witness ==
    /\ FirstCommitted
    /\ Len(tool_calls) = MaxSlot + 1
    /\ 1 \notin NamedSlots(tool_calls)
    /\ tool_calls[1].function.arguments # <<>>
    /\ NamedSlots(tool_calls) = {MaxSlot + 1}
    /\ Len(executed) = 1

\* C10: the dispatcher appends, directly after the assistant message, one
\* tool message per saved tool call, the k-th carrying the id of the k-th
\* tool call, and executes each saved tool call exactly once, in order.
C10_OneToolMsgPerCall ==
    (FirstCommitted /\ tool_calls # <<>>)
        => LET tcs == ToolCallsOf(FirstMsg)
               n   == Len(tcs)
               b   == IssuedAt(1)
           IN  /\ FirstMsg.role = "assistant"
               /\ Len(messages) >= b + 1 + n
               /\ \A k \in 1..n :
                      /\ messages[b + 1 + k].role = "tool"
                      /\ messages[b + 1 + k].tool_call_id = tcs[k].id
               /\ \A i \in (b + n + 2)..Len(messages) : messages[i].role # "tool"
               /\ Len(executed) = n
               /\ \A k \in 1..n :
                      /\ executed[k].id = tcs[k].id
                      /\ executed[k].name = tcs[k].function.name

C10_Witness ==
    /\ FirstCommitted
    /\ Len(ToolCallsOf(FirstMsg)) = 2
    /\ ToolCallsOf(FirstMsg)[1].id # ToolCallsOf(FirstMsg)[2].id
    /\ Len(messages) = IssuedAt(1) + 3
    /\ messages[Len(messages)].tool_call_id = "j"

\* ------------------------------------- claims on the accumulator alone
\* permutations of 1..n
Perms(n) ==
    { f \in [1..n -> 1..n] : \A a, b \in 1..n : a # b => f[a] # f[b] }

\* the deltas of ds in the arrival order f
Reorder(ds, f) == [k \in 1..Len(ds) |-> ds[f[k]]]

\* f keeps the relative order of the deltas of each slot
KeepsSlotOrder(ds, f) ==
    \A a, b \in 1..Len(ds) :
        (a < b /\ ds[f[a]].index = ds[f[b]].index) => f[a] < f[b]

\* the finalized tool calls of a whole delta sequence
Finalized(ds) == FormatToolCalls(ApplyDeltas(<<>>, ds).tcs)

\* C8 (as stated): every arrival order of the deltas received so far gives
\* the same finalized tool calls.
C8_AnyOrderSameResult ==
    \A f \in Perms(Len(hist)) :
        Finalized(Reorder(hist, f)) = FormatToolCalls(tool_calls)

\* C8 (amended): every arrival order of the well-formed deltas received so
\* far that keeps the relative order of the deltas of each slot gives the
\* same finalized tool calls.
C8_SlotOrderSameResult ==
    \A f \in Perms(Len(hist)) :
        KeepsSlotOrder(hist, f)
            => Finalized(Reorder(hist, f)) = FormatToolCalls(tool_calls)

C8_Witness ==
    /\ Len(hist) = 3
    /\ hist[1].index = 0 /\ hist[2].index = 0 /\ hist[3].index = 1
    /\ Len(FormatToolCalls(tool_calls)) = 2
    /\ FormatToolCalls(tool_calls)[1].function.arguments # <<>>
    /\ hist[2].arguments # <<>>

\* the argument fragments of slot i in ds, concatenated in arrival order
RECURSIVE ArgsOfSlot(_, _)
ArgsOfSlot(ds, i) ==
    IF ds = <<>> THEN <<>>
    ELSE (IF Head(ds).index = i THEN Head(ds).arguments ELSE <<>>)
             \o ArgsOfSlot(Tail(ds), i)

\* C9: the arguments of every slot, and of every finalized tool call, are
\* the argument fragments delivered for that slot joined in arrival order,
\* whatever deltas of other slots came in between.
C9_ArgumentsRoundTrip ==
    /\ \A i \in 1..Len(tool_calls) :
           tool_calls[i].function.arguments = ArgsOfSlot(hist, i - 1)
    /\ \A k \in 1..Len(FormatToolCalls(tool_calls)) :
           FormatToolCalls(tool_calls)[k].function.arguments
               = ArgsOfSlot(hist, KthNamed(tool_calls, k) - 1)

C9_Witness ==
    /\ Len(hist) = 3
    /\ hist[1].index = 0 /\ hist[2].index = 1 /\ hist[3].index = 0
    /\ hist[1].arguments = <<"{">> /\ hist[3].arguments = <<"}">>
    /\ hist[2].arguments # <<>>
    /\ Len(FormatToolCalls(tool_calls)) = 1
    /\ FormatToolCalls(tool_calls)[1].function.arguments = <<"{", "}">>

\* ------------------------------------------------------- claims C11 - C20

\* the argument text is not parseable JSON
Unparseable(text) == text # <<>> /\ ~JsonLoads(text).ok

\* C11: a saved tool call whose argument text is not parseable JSON is
\* still executed, with an empty argument mapping; its tool message carries
\* the backend's result and the follow-up model call is issued.
C11_ParseFailureRunsWithEmptyArgs ==
    FirstCommitted =>
        \A k \in 1..Len(ToolCallsOf(FirstMsg)) :
            LET tc == ToolCallsOf(FirstMsg)[k]
            IN  Unparseable(tc.function.arguments) =>
                    /\ executed[k].name = tc.function.name
                    /\ executed[k].arguments = [type |-> "object"]
                    /\ messages[IssuedAt(1) + 1 + k].role = "tool"
                    /\ messages[IssuedAt(1) + 1 + k].content
                           = ExecuteToolCall(tc.function.name, [type |-> "object"])
                    /\ Len(calls) = 2
                    /\ IssuedAt(2) = IssuedAt(1) + 1 + Len(ToolCallsOf(FirstMsg))

C11_Witness ==
    /\ FirstCommitted
    /\ pc = "followup"
    /\ Len(ToolCallsOf(FirstMsg)) = 1
    /\ ToolCallsOf(FirstMsg)[1].function.arguments = <<"{">>
    /\ messages[Len(messages)].role = "tool"
    /\ Len(calls) = 2

\* the messages of the k-th request that stand for the transcript: the
\* request without whatever precedes them
WireOffset(k) == Len(calls[k].messages) - Len(calls[k].at)

IsPrefix(a, b) == Len(a) <= Len(b) /\ SubSeq(b, 1, Len(a)) = a

\* C14: every step other than Clear Chat leaves the previous transcript as
\* an unchanged prefix of the new one.
C14_AppendOnly == [][ClearChat \/ IsPrefix(messages, messages')]_vars

C14_Witness ==
    /\ RunDone /\ FollowupCommitted
    /\ IssuedAt(1) = 2
    /\ Len(messages) >= 5
    /\ IsPrefix(calls[1].at, messages) /\ IsPrefix(calls[2].at, messages)

\* where the entries appended by the turn of the k-th model call end
TurnEnd(k) == IF k < Len(calls) THEN IssuedAt(k + 1) ELSE Len(messages)

\* assistant messages appended by the turn of the k-th model call
AssistantsAppended(k) ==
    Cardinality({ i \in (IssuedAt(k) + 1)..TurnEnd(k) : messages[i].role = "assistant" })

\* the k-th model call of this run is over
Ended(k) == k < Len(calls) \/ (k = Len(calls) /\ pc = "idle")

\* the k-th model call of this run ended with an error surfaced
Failed(k) == k = Len(calls) /\ error # "none"

NoReasoningTag(t) ==
    ~ \E i, j \in 1..Len(t) :
          /\ i < j
          /\ t[i] = "<"
          /\ t[j] = ">"
          /\ \A k \in (i + 1)..(j - 1) : t[k] # ">"
          /\ \E k \in (i + 1)..(j - 1) : t[k] \in Keywords

\* C16: for every cumulative content text that holds no reasoning tag, the
\* placeholder shows exactly one span, of kind plain, whose text is the
\* whole text (blank text included).
C16_UntaggedIsOnePlainSpan ==
    (full_response # <<>> /\ NoReasoningTag(full_response))
        => message_placeholder = <<Span("plain", full_response)>>

C16_Witness ==
    /\ Len(full_response) >= 3
    /\ NoReasoningTag(full_response)
    /\ \E k \in 1..Len(full_response) : full_response[k] = "<"
    /\ \E k \in 1..Len(full_response) : full_response[k] = "think"
    /\ message_placeholder = <<Span("plain", full_response)>>

IsOpenTag(t) == Len(t) = 3 /\ t[1] = "<" /\ t[2] \in Keywords /\ t[3] = ">"

IsCloseTag(t) ==
    Len(t) = 4 /\ t[1] = "<" /\ t[2] = "/" /\ t[3] \in Keywords /\ t[4] = ">"

\* s is an open tag, text A without a tag, a close tag that starts at c, and
\* non-blank text B without a tag
PairThenText(s, c) ==
    /\ c >= 4
    /\ c + 3 < Len(s)
    /\ IsOpenTag(SubSeq(s, 1, 3))
    /\ IsCloseTag(SubSeq(s, c, c + 3))
    /\ NoReasoningTag(SubSeq(s, 4, c - 1))
    /\ NoReasoningTag(SubSeq(s, c + 4, Len(s)))
    /\ Strip(SubSeq(s, c + 4, Len(s)))

\* C17: for content made of one matched open/close pair around text A
\* followed by non-blank text B, the placeholder shows exactly two spans:
\* a reasoning span that holds the open tag, A and the close tag, then a
\* plain span that holds B.
C17_PairThenTextIsTwoSpans ==
    \A c \in 1..Len(full_response) :
        PairThenText(full_response, c)
            => message_placeholder =
                   << Span("reasoning", SubSeq(full_response, 1, c + 3)),
                      Span("plain", SubSeq(full_response, c + 4,
                                           Len(full_response))) >>

C17_Witness ==
    /\ \E c \in 1..Len(full_response) :
           PairThenText(full_response, c) /\ c > 4
    /\ Len(message_placeholder) = 2
    /\ message_placeholder[1].kind = "reasoning"
    /\ message_placeholder[2].kind = "plain"

\* the first tag of s is an open tag at position i, and no close tag
\* follows it
UnmatchedOpenAt(s, i) ==
    /\ TagEnd(s, i) # 0
    /\ CloseEnd(s, i) = 0
    /\ \A k \in 1..(i - 1) : TagEnd(s, k) = 0
    /\ \A k \in (i + 1)..Len(s) : CloseEnd(s, k) = 0

\* the first tag of s is an open tag at position i, and the first close tag
\* after it starts at c
ClosedAt(s, i, c) ==
    /\ TagEnd(s, i) # 0
    /\ CloseEnd(s, i) = 0
    /\ \A k \in 1..(i - 1) : TagEnd(s, k) = 0
    /\ c > TagEnd(s, i)
    /\ CloseEnd(s, c) # 0
    /\ \A k \in (TagEnd(s, i) + 1)..(c - 1) : CloseEnd(s, k) = 0

\* C18: when the content has an open tag with no close tag after it, at any
\* position, the text from the open tag to the end is shown as a reasoning
\* span and the text before it, if not blank, as a plain span; once the
\* close tag has arrived the closed region is shown as a reasoning span.
C18_UnmatchedOpenIsReasoning ==
    LET s == full_response
    IN  /\ \A i \in 1..Len(s) :
              UnmatchedOpenAt(s, i)
                  => message_placeholder =
                         (IF Strip(SubSeq(s, 1, i - 1))
                          THEN <<Span("plain", SubSeq(s, 1, i - 1))>>
                          ELSE <<>>)
                         \o <<Span("reasoning", SubSeq(s, i, Len(s)))>>
        /\ \A i, c \in 1..Len(s) :
              ClosedAt(s, i, c)
                  => \E n \in 1..Len(message_placeholder) :
                         message_placeholder[n] =
                             Span("reasoning", SubSeq(s, i, CloseEnd(s, c)))

\* C18, the part of it the code keeps: an unmatched open tag at the very
\* start of the content makes the whole content one reasoning span, and a
\* closed region is a reasoning span.
C18_LeadingOpenIsReasoning ==
    LET s == full_response
    IN  /\ UnmatchedOpenAt(s, 1)
              => message_placeholder = <<Span("reasoning", s)>>
        /\ \A i, c \in 1..Len(s) :
              ClosedAt(s, i, c)
                  => \E n \in 1..Len(message_placeholder) :
                         message_placeholder[n] =
                             Span("reasoning", SubSeq(s, i, CloseEnd(s, c)))

\* C19: no fragment, however malformed, aborts the turn: the handler never
\* ends on an error raised while a chunk was processed.
C19_MalformedFragmentSkipped == error # "chunk_error"

\* C20: while the first stream is consumed no other call is in flight; the
\* follow-up call is issued on the transcript that holds the user message,
\* the saved assistant message and every tool message of the turn, after
\* every tool was executed, and its request has one message per transcript
\* entry, in order, with the entry's role, content, tool calls and call id.
C20_SequentialCalls ==
    /\ pc = "streaming" => (Len(calls) = 1 /\ messages = calls[1].at)
    /\ Len(calls) <= 2
    /\ Len(calls) = 2 =>
           /\ FirstCommitted
           /\ LET n == Len(ToolCallsOf(FirstMsg))
                  b == IssuedAt(1)
              IN  /\ IssuedAt(2) = b + 1 + n
                  /\ IsPrefix(calls[2].at, messages)
                  /\ calls[2].at[b].role = "user"
                  /\ calls[2].at[b + 1].role = "assistant"
                  /\ \A k \in 1..n : calls[2].at[b + 1 + k].role = "tool"
                  /\ Len(executed) = n
           /\ WireOffset(2) >= 0
           /\ \A i \in 1..IssuedAt(2) :
                  LET m == calls[2].at[i]
                      w == calls[2].messages[WireOffset(2) + i]
                  IN  /\ w.role = m.role
                      /\ m.role \in {"user", "assistant"} => w.content = m.content
                      /\ m.role = "assistant" => ToolCallsOf(w) = ToolCallsOf(m)
                      /\ m.role = "tool" => w.tool_call_id = m.tool_call_id

C20_Witness ==
    /\ pc = "followup"
    /\ Len(calls) = 2
    /\ Len(ToolCallsOf(FirstMsg)) = 2
    /\ IssuedAt(2) = IssuedAt(1) + 3
    /\ calls[2].messages[Len(calls[2].messages)].tool_call_id = "j"

\* ------------------------------------------------------- claims C21 - C30
\* the payload is a result value or a structured error, never an exception
IsPayload(c) ==
    \/ DOMAIN c = {"error"}
    \/ DOMAIN c = {"products"}
    \/ DOMAIN c = {"status", "tool", "arguments"}

\* C21: execute_tool_call never raises, whatever the tool name and the
\* parsed argument value (a number included): every finalized call of the
\* run has its tool message, whose payload is a result value or a structured
\* error; a database tool given a value that is not a mapping answers with
\* the error of the outer except, and the run goes on to the follow-up call.
C21_ToolCallNeverRaises ==
    (FirstCommitted /\ tool_calls # <<>>) =>
        /\ Len(executed) = Len(SelectSeq(tool_calls, HasName))
        /\ Len(calls) = 2
        /\ \A k \in 1..Len(executed) :
              LET m == messages[IssuedAt(1) + 1 + k]
              IN  /\ m.role = "tool"
                  /\ IsPayload(m.content)
                  /\ (/\ executed[k].name \in DbTools \cup {"calculate"}
                      /\ executed[k].arguments.type # "object")
                        => m.content = [error |-> "Error executing tool"]

C21_Witness ==
    /\ FirstCommitted
    /\ Len(executed) = 1
    /\ executed[1].name = "get_order_details"
    /\ executed[1].arguments.type = "number"
    /\ messages[IssuedAt(1) + 2].role = "tool"
    /\ messages[IssuedAt(1) + 2].content = [error |-> "Error executing tool"]
    /\ pc = "followup"

\* C22: the reasoning-tag rule is applied identically wherever content is
\* classified: the spans the first turn shows for a cumulative content text
\* are the spans the follow-up turn shows for the same text, and the spans
\* the history re-display shows for it.
C22_SameSpansEverywhere ==
    full_response # <<>> =>
        /\ message_placeholder = ClassifyFollowup(full_response)
        /\ message_placeholder = DisplayContent(full_response)

\* hist read as the fragments of the first stream
RECURSIVE Flatten(_)
Flatten(ss) == IF ss = <<>> THEN <<>> ELSE Head(ss) \o Flatten(Tail(ss))

Concat(h, F(_)) == Flatten([k \in 1..Len(h) |-> F(h[k])])

\* every non-empty reasoning delta of a fragment, from either field
BothReasoningFields(c) == IF c.choices THEN c.reasoning \o c.reasoning_content ELSE <<>>

\* the reasoning delta of a fragment: its reasoning field, or else its
\* reasoning_content field
ReasoningDelta(c) ==
    IF ~c.choices THEN <<>>
    ELSE IF c.reasoning # <<>> THEN c.reasoning ELSE c.reasoning_content

ContentDeltaOf(c) == IF c.choices THEN c.content ELSE <<>>

ToolDeltasOf(c) == IF c.choices THEN c.tool_calls ELSE <<>>

StoredThinking(m) == IF "thinking" \in DOMAIN m THEN m.thinking ELSE <<>>

\* the content buffer and the accumulator are what the content deltas and
\* the tool-call deltas alone make them, and the saved message holds them
ContentAndCallsRouted ==
    /\ full_response = Concat(hist, ContentDeltaOf)
    /\ tool_calls = ApplyDeltas(<<>>, Concat(hist, ToolDeltasOf)).tcs
    /\ FirstCommitted =>
          /\ FirstMsg.content = Concat(hist, ContentDeltaOf)
          /\ ToolCallsOf(FirstMsg) = FormatToolCalls(tool_calls)

\* C23 (as stated): the stored reasoning is the concatenation, in arrival
\* order, of every non-empty reasoning delta of either field; the stored
\* content is the concatenation of every content delta; no delta of one kind
\* changes the buffer of another kind.
C23_EveryDeltaStored ==
    /\ thinking_content = Concat(hist, BothReasoningFields)
    /\ FirstCommitted => StoredThinking(FirstMsg) = Concat(hist, BothReasoningFields)
    /\ ContentAndCallsRouted

\* C23 (amended): as stated, with the reasoning delta of a fragment being
\* its reasoning field when that is non-empty and its reasoning_content
\* field otherwise.
C23_OneReasoningDeltaPerFragment ==
    /\ thinking_content = Concat(hist, ReasoningDelta)
    /\ FirstCommitted => StoredThinking(FirstMsg) = Concat(hist, ReasoningDelta)
    /\ ContentAndCallsRouted

C23_Witness ==
    /\ FirstCommitted
    /\ Len(hist) = 3
    /\ \E k \in 1..Len(hist) : hist[k].reasoning # <<>> /\ hist[k].reasoning_content # <<>>
    /\ \E k \in 1..Len(hist) : hist[k].content # <<>> /\ hist[k].tool_calls # <<>>
    /\ Len(StoredThinking(FirstMsg)) >= 2
    /\ FirstMsg.content # <<>>
    /\ ToolCallsOf(FirstMsg) # <<>>

\* the delta the step has just applied, and the slot as it was before
LastDelta == hist'[Len(hist')]

SlotBefore(k) == IF k <= Len(tool_calls) THEN tool_calls[k] ELSE EmptyToolCall

\* C24: a delta for slot i leaves an accumulator of length
\* max(previous length, i + 1); every slot it created other than i is an
\* empty placeholder and every other slot that existed keeps its id, name
\* and arguments, whatever the order and the gaps in which slots arrive.
C24_DeltaFrame ==
    [][hist' # hist =>
          LET i == LastDelta.index
              n == Len(tool_calls)
          IN  /\ Len(tool_calls') = (IF n > i + 1 THEN n ELSE i + 1)
              /\ \A k \in 1..Len(tool_calls') :
                    k # i + 1 =>
                        tool_calls'[k] = (IF k <= n THEN tool_calls[k]
                                          ELSE EmptyToolCall)]_vars

\* a slot was created as a placeholder by a delta for a later slot, and the
\* earlier slot was filled afterwards without touching the later one
C24_Witness ==
    /\ Len(hist) = 2
    /\ hist[1].index = 1
    /\ hist[2].index = 0
    /\ Len(tool_calls) = 2
    /\ tool_calls[1].function.name = "send_email"
    /\ tool_calls[2].function.name = "get_order_details"
    /\ tool_calls[2].id = "i"

\* the last non-empty name among the deltas of h for slot index i
RECURSIVE LastName(_, _)
LastName(h, i) ==
    IF h = <<>> THEN ""
    ELSE LET d == h[Len(h)]
         IN  IF d.index = i /\ d.function = "obj" /\ d.name # ""
             THEN d.name
             ELSE LastName(SubSeq(h, 1, Len(h) - 1), i)

\* C25: a delta appends its argument fragment to the slot's arguments (the
\* previous text stays a prefix), a non-empty id or name replaces the
\* slot's id or name, an empty one leaves the field as it was; so a slot's
\* name is the last non-empty name delta it received.
C25_AppendAndReplace ==
    [][hist' # hist =>
          LET d   == LastDelta
              old == SlotBefore(d.index + 1)
              new == tool_calls'[d.index + 1]
          IN  /\ IsPrefix(old.function.arguments, new.function.arguments)
              /\ new.function.arguments = old.function.arguments \o d.arguments
              /\ new.function.name =
                     (IF d.name # "" THEN d.name ELSE old.function.name)
              /\ new.id = (IF d.id # "" THEN d.id ELSE old.id)
              /\ \A k \in 1..Len(tool_calls') :
                     tool_calls'[k].function.name = LastName(hist', k - 1)]_vars

C25_Witness ==
    /\ Len(hist) = 3
    /\ \A k \in 1..3 : hist[k].index = 0
    /\ hist[1].name = "get_order_details"
    /\ hist[2].name = "send_email"
    /\ hist[3].name = ""
    /\ hist[3].arguments = <<"}">>
    /\ tool_calls[1].function.name = "send_email"
    /\ tool_calls[1].function.arguments = <<"{", "}">>
    /\ tool_calls[1].id = "i"

\* an assistant entry with k >= 1 tool calls at position i is followed by
\* exactly k tool messages that carry the ids of its calls, in order
HasItsResults(i) ==
    LET tcs == ToolCallsOf(messages[i])
        k   == Len(tcs)
    IN  /\ i + k <= Len(messages)
        /\ \A j \in 1..k :
              /\ messages[i + j].role = "tool"
              /\ messages[i + j].tool_call_id = tcs[j].id
        /\ i + k + 1 <= Len(messages) => messages[i + k + 1].role # "tool"

\* C26: at the end of every run each assistant message of the transcript
\* that has k >= 1 tool calls is immediately followed by exactly k tool
\* messages with the ids of those calls in the same order.
C26_EveryToolCallHasItsResult ==
    pc = "idle" =>
        \A i \in 1..Len(messages) :
            (messages[i].role = "assistant" /\ ToolCallsOf(messages[i]) # <<>>)
                => HasItsResults(i)

\* C27: a follow-up model call is made if and only if the assistant message
\* the first turn committed has at least one tool call; a turn whose slots
\* never got a name commits no tool calls, executes nothing, appends no tool
\* message and makes no follow-up call.
C27_FollowupIffToolCalls ==
    FirstCommitted =>
        /\ (Len(calls) = 2) <=> (ToolCallsOf(FirstMsg) # <<>>)
        /\ ToolCallsOf(FirstMsg) = <<>> =>
              /\ executed = <<>>
              /\ \A i \in (IssuedAt(1) + 2)..Len(messages) : messages[i].role # "tool"

\* C28: when every stream is finite the handling of a user input always
\* comes to its end; whatever the model returns, at most two model calls
\* are made for the input, and the execute_tool_call invocations are the
\* named slots of the first turn, one invocation each, in slot order.
C28_TerminatesWithinTwoCalls ==
    /\ (pc # "idle") ~> (pc = "idle")
    /\ [](/\ Len(calls) <= 2
          /\ Len(executed) <= Len(FormatToolCalls(tool_calls))
          /\ \A k \in 1..Len(executed) :
                /\ executed[k].id = FormatToolCalls(tool_calls)[k].id
                /\ executed[k].name = FormatToolCalls(tool_calls)[k].function.name)

\* both turns asked for tools, and the run is over after two calls
C28_Witness ==
    /\ pc = "idle"
    /\ error = "none"
    /\ Len(calls) = 2
    /\ Len(executed) = 2
    /\ FollowupCommitted
    /\ ToolCallsOf(FollowupMsg) # <<>>

\* C29: each transcript entry is translated to wire form exactly once: in
\* every request sent, the content of a tool message is the single JSON
\* encoding of the stored tool result, and user and assistant entries keep
\* their role, content and tool calls.
C29_TranslatedOnce ==
    \A k \in 1..Len(calls) :
        /\ WireOffset(k) >= 0
        /\ \A i \in 1..IssuedAt(k) :
              LET m == calls[k].at[i]
                  w == calls[k].messages[WireOffset(k) + i]
              IN  /\ w.role = m.role
                  /\ m.role = "tool" => w.content = JsonDumps(m.content)
                  /\ m.role \in {"user", "assistant"} =>
                        /\ w.content = m.content
                        /\ ToolCallsOf(w) = ToolCallsOf(m)

\* C30: a finalized tool call is dispatched to the tool backend only if its
\* name is among the tools enabled for the turn, the set sent to the model;
\* no tool message of a call that names another tool reports a success.
C30_OnlyEnabledToolsRun ==
    (FirstCommitted /\ calls[1].tools = enabled_tools) =>
        /\ \A k \in 1..Len(executed) : executed[k].name \in enabled_tools
        /\ \A k \in 1..Len(ToolCallsOf(FirstMsg)) :
              LET name == ToolCallsOf(FirstMsg)[k].function.name
                  at   == IssuedAt(1) + 1 + k
              IN  (name \notin enabled_tools /\ at <= Len(messages)
                      /\ messages[at].role = "tool")
                    => "status" \notin DOMAIN messages[at].content

====
